---- MODULE Spec2Model ----
(***************************************************************************)
(* Model of the fill_census command of airtable-enrich (cli.py).           *)
(*                                                                         *)
(* The command fetches the rows of one Airtable table, resolves a Census   *)
(* tract for each row that carries a latitude and a longitude, collects    *)
(* the rows whose tract field has to change in the list `updates`, asks    *)
(* for confirmation and writes the list with one batch_update call.        *)
(*                                                                         *)
(* Field values are tagged: Airtable hands back strings, numbers or        *)
(* nothing at all, and the Python code treats them differently (truth      *)
(* test, float(), ==).  A string is a sequence of one-character strings.   *)
(* An uncaught Python exception ends the run in pc = "fatal"; click.Abort  *)
(* ends it in pc = "aborted"; a return from the command in pc = "done".    *)
(***************************************************************************)
EXTENDS Integers, Sequences, FiniteSets, TLC

\* ------------------------------------------------------------------ bounds
\* Largest number of rows get_all returns.
MaxRecords == 2
\* Number of digits of a GEOID the resolver returns.
MaxLen == 2
\* Number of times the command is run in a row on the same table.
MaxRuns == 2

\* ------------------------------------------------------------ field values
None == [kind |-> "none", s |-> <<>>, n |-> 0]
Str(s) == [kind |-> "str", s |-> s, n |-> 0]
Num(n) == [kind |-> "num", s |-> <<>>, n |-> n]
\* The resolver raised (requests timeout, transport error, bad JSON).
Raise == [kind |-> "raise", s |-> <<>>, n |-> 0]

DigitChars == <<"0", "1", "2", "3", "4", "5", "6", "7", "8", "9">>

IsDigit(c) == \E d \in 1..Len(DigitChars) : DigitChars[d] = c

DigitValue(c) == (CHOOSE d \in 1..Len(DigitChars) : DigitChars[d] = c) - 1

AllDigits(s) == Len(s) > 0 /\ \A k \in 1..Len(s) : IsDigit(s[k])

\* int(s) of a string of decimal digits.
RECURSIVE ParseInt(_)
ParseInt(s) ==
    IF Len(s) = 0 THEN 0
    ELSE 10 * ParseInt(SubSeq(s, 1, Len(s) - 1)) + DigitValue(s[Len(s)])

\* str(n) of a natural number.
RECURSIVE FormatInt(_)
FormatInt(n) ==
    IF n < 10 THEN <<DigitChars[n + 1]>>
    ELSE Append(FormatInt(n \div 10), DigitChars[(n % 10) + 1])

\* Python's truth test `not v`: None, "" and the number 0 are false.
Truthy(v) ==
    CASE v.kind = "none" -> FALSE
      [] v.kind = "str" -> Len(v.s) > 0
      [] v.kind = "num" -> v.n # 0
      [] OTHER -> TRUE

\* float(v) succeeds: v is a number, or a string float() can parse.
FloatParses(v) == v.kind = "num" \/ (v.kind = "str" /\ AllDigits(v.s))

\* float(v), for a v that parses.
FloatOf(v) == IF v.kind = "num" THEN v.n ELSE ParseInt(v.s)

\* geoid = str(int(tract)): the leading zeros are stripped.
Normalize(tract) == FormatInt(ParseInt(tract))

\* existing_geoid == geoid, where geoid is a str: a number or None is never
\* equal to a str in Python.
SameValue(existing, geoid) == existing.kind = "str" /\ existing.s = geoid

\* elif existing_geoid and not override
OverrideConflict(existing, ov) == Truthy(existing) /\ ~ov

\* (mutant: the str() of str(int(tract)) is forgotten)
NewUpdate_IntValue(row, geoid) == [id |-> row.id, tract |-> Num(ParseInt(geoid))]

\* {"id": row["id"], "fields": {tract_field: geoid}}
NewUpdate(row, geoid) == [id |-> row.id, tract |-> Str(geoid)]

\* (mutant: the early return on an empty list is missing)
HasUpdates_Always(us) == TRUE

\* if not updates: ... return
HasUpdates(us) == Len(us) > 0

\* (mutant: updates.insert(0, ...))
AddUpdate_Front(us, u) == <<u>> \o us

\* updates.append(...)
AddUpdate(us, u) == Append(us, u)

\* ------------------------------------------------------------------ inputs
RECURSIVE SeqsOfLen(_, _)
SeqsOfLen(S, n) ==
    IF n = 0 THEN {<<>>}
    ELSE {Append(q, x) : q \in SeqsOfLen(S, n - 1), x \in S}

SeqsUpTo(S, n) == UNION {SeqsOfLen(S, k) : k \in 0..n}

\* A GEOID is a fixed-width, zero-padded digit string.
RECURSIVE Pad(_, _)
Pad(s, w) == IF Len(s) >= w THEN s ELSE Pad(<<"0">> \o s, w)

GeoidNumbers == {0, 1, 10}

Geoids == {Pad(FormatInt(g), MaxLen) : g \in GeoidNumbers}

\* What a latitude or longitude field may hold: nothing, "", a string that is
\* no number, a string that is one, the number 0, another number.
CoordValues == {None, Str(<<>>), Str(<<"x">>), Str(<<"1">>), Num(0), Num(1)}

\* What the tract field may hold.
TractValues == {None, Str(<<>>), Num(0), Num(1), Str(<<"1">>)}

GoodLat == Num(1)
GoodLng == Str(<<"1">>)

CoordPairs ==
    {<<a, GoodLng>> : a \in CoordValues} \cup {<<GoodLat, b>> : b \in CoordValues}

\* The rows the table is drawn from vary one aspect of a well-formed row at a
\* time: its coordinates, its tract field against the resolved GEOID, or the
\* resolver's answer.
CoordCases ==
    {[lat |-> p[1], lng |-> p[2], tract |-> None, res |-> Str(Pad(<<"1">>, MaxLen))] :
        p \in CoordPairs}

TractCases ==
    {[lat |-> GoodLat, lng |-> GoodLng, tract |-> t, res |-> Str(g)] :
        t \in TractValues, g \in Geoids}

ResolverCases ==
    {[lat |-> GoodLat, lng |-> GoodLng, tract |-> None, res |-> r] :
        r \in {None, Raise}}

RowCases == CoordCases \cup TractCases \cup ResolverCases

Engines == {"geocoder", "shapefile", "bogus"}

VARIABLES
    table,        \* the Airtable table: a sequence of rows [id, lat, lng, tract]
    resolver,     \* resolver[k]: what the resolver answers for row k's coordinate
    engine,       \* --engine
    confirm,      \* --confirm/--no-confirm
    override,     \* --override/--no-override
    table_data,   \* the rows fetched by get_all
    i,            \* position of the loop in table_data
    updates,      \* the pending updates
    pc,           \* "fetch", "loop", "apply", "done", "aborted", "fatal"
    error,        \* the exception that ended the run, or "none"
    calls,        \* the resolver calls of this run: [id, lat, lng]
    log,          \* the click.echo / click.confirm output of this run
    batch_calls,  \* the arguments of this run's batch_update calls
    declined,     \* the operator answered no to the prompt in this run
    run,          \* number of the current run
    prev_applied  \* the previous run's batch_update succeeded

vars == <<table, resolver, engine, confirm, override, table_data, i, updates, pc,
          error, calls, log, batch_calls, declined, run, prev_applied>>

config == <<engine, confirm, override, resolver>>

MakeTable(cs) == [k \in 1..Len(cs) |->
                    [id |-> k, lat |-> cs[k].lat, lng |-> cs[k].lng, tract |-> cs[k].tract]]

Init ==
    /\ \E cs \in SeqsUpTo(RowCases, MaxRecords) :
         /\ table = MakeTable(cs)
         /\ resolver = [k \in 1..Len(cs) |-> cs[k].res]
    /\ engine \in Engines
    /\ \A k \in 1..Len(resolver) : resolver[k] = Raise => engine = "geocoder"
    /\ confirm \in BOOLEAN
    /\ override \in BOOLEAN
    /\ table_data = <<>>
    /\ i = 1
    /\ updates = <<>>
    /\ pc = "fetch"
    /\ error = "none"
    /\ calls = <<>>
    /\ log = <<>>
    /\ batch_calls = <<>>
    /\ declined = FALSE
    /\ run = 1
    /\ prev_applied = FALSE

\* ----------------------------------------------------------------- actions
\* table_data = list(table.get_all(maxRecords=limit))
FetchRows ==
    /\ pc = "fetch"
    /\ table_data' = table
    /\ pc' = "loop"
    /\ UNCHANGED <<table, config, i, updates, error, calls, log, batch_calls,
                   declined, run, prev_applied>>

InLoop == pc = "loop" /\ i <= Len(table_data)

Row == table_data[i]

\* if not lat_str or not lng_str
MissingLatLng(row) == ~Truthy(row.lat) \/ ~Truthy(row.lng)

Echo(kind, id) == log' = Append(log, [kind |-> kind, id |-> id])

Call(row) == [id |-> row.id, lat |-> FloatOf(row.lat), lng |-> FloatOf(row.lng)]

\* The engine dispatch is reached: both float() calls returned.
Dispatched(row) ==
    /\ ~MissingLatLng(row)
    /\ FloatParses(row.lat)
    /\ FloatParses(row.lng)

\* The resolver is called and returns (or raises).
Resolved(row) == Dispatched(row) /\ engine \in {"geocoder", "shapefile"}

Fatal(e) == pc' = "fatal" /\ error' = e

SkipMissingLatLng ==
    /\ InLoop
    /\ MissingLatLng(Row)
    /\ Echo("skip_missing", Row.id)
    /\ i' = i + 1
    /\ UNCHANGED <<table, config, table_data, updates, pc, error, calls,
                   batch_calls, declined, run, prev_applied>>

\* float(lat_str) or float(lng_str) raises ValueError; nothing catches it.
FloatRaises ==
    /\ InLoop
    /\ ~MissingLatLng(Row)
    /\ ~(FloatParses(Row.lat) /\ FloatParses(Row.lng))
    /\ Fatal("ValueError")
    /\ UNCHANGED <<table, config, table_data, i, updates, calls, log,
                   batch_calls, declined, run, prev_applied>>

\* raise Exception(f"Invalid engine specified {engine}")
InvalidEngine ==
    /\ InLoop
    /\ Dispatched(Row)
    /\ engine \notin {"geocoder", "shapefile"}
    /\ Fatal("InvalidEngine")
    /\ UNCHANGED <<table, config, table_data, i, updates, calls, log,
                   batch_calls, declined, run, prev_applied>>

\* requests.get / r.json() raises inside tract_from_census_geocoder; nothing
\* catches it.
ResolverRaises ==
    /\ InLoop
    /\ Resolved(Row)
    /\ resolver[i] = Raise
    /\ calls' = Append(calls, Call(Row))
    /\ Fatal("ResolverError")
    /\ UNCHANGED <<table, config, table_data, i, updates, log, batch_calls,
                   declined, run, prev_applied>>

Returned(row) == Resolved(row) /\ resolver[i] # Raise

\* if not tract
SkipNoTract ==
    /\ InLoop
    /\ Returned(Row)
    /\ ~Truthy(resolver[i])
    /\ calls' = Append(calls, Call(Row))
    /\ Echo("skip_no_tract", Row.id)
    /\ i' = i + 1
    /\ UNCHANGED <<table, config, table_data, updates, pc, error, batch_calls,
                   declined, run, prev_applied>>

HasTract(row) == Returned(row) /\ Truthy(resolver[i])

Geoid == Normalize(resolver[i].s)

\* if existing_geoid == geoid
SkipSame ==
    /\ InLoop
    /\ HasTract(Row)
    /\ SameValue(Row.tract, Geoid)
    /\ calls' = Append(calls, Call(Row))
    /\ i' = i + 1
    /\ UNCHANGED <<table, config, table_data, updates, pc, error, log,
                   batch_calls, declined, run, prev_applied>>

\* elif existing_geoid and not override
SkipConflict ==
    /\ InLoop
    /\ HasTract(Row)
    /\ ~SameValue(Row.tract, Geoid)
    /\ OverrideConflict(Row.tract, override)
    /\ calls' = Append(calls, Call(Row))
    /\ Echo("conflict", Row.id)
    /\ i' = i + 1
    /\ UNCHANGED <<table, config, table_data, updates, pc, error, batch_calls,
                   declined, run, prev_applied>>

AppendUpdate ==
    /\ InLoop
    /\ HasTract(Row)
    /\ ~SameValue(Row.tract, Geoid)
    /\ ~OverrideConflict(Row.tract, override)
    /\ calls' = Append(calls, Call(Row))
    /\ updates' = AddUpdate(updates, NewUpdate(Row, Geoid))
    /\ i' = i + 1
    /\ UNCHANGED <<table, config, table_data, pc, error, log, batch_calls,
                   declined, run, prev_applied>>

LoopOver == pc = "loop" /\ i > Len(table_data)

\* click.echo('No rows needed to be updated.'); return
NoUpdates ==
    /\ LoopOver
    /\ ~HasUpdates(updates)
    /\ Echo("no_updates", 0)
    /\ pc' = "done"
    /\ UNCHANGED <<table, config, table_data, i, updates, error, calls,
                   batch_calls, declined, run, prev_applied>>

\* click.confirm(..., abort=True) answered yes
ConfirmAccept ==
    /\ LoopOver
    /\ HasUpdates(updates)
    /\ confirm
    /\ Echo("prompt", 0)
    /\ pc' = "apply"
    /\ UNCHANGED <<table, config, table_data, i, updates, error, calls,
                   batch_calls, declined, run, prev_applied>>

\* (mutant: click.confirm without abort=True, its answer ignored)
ConfirmDecline_NoAbort ==
    /\ LoopOver
    /\ HasUpdates(updates)
    /\ confirm
    /\ Echo("prompt", 0)
    /\ declined' = TRUE
    /\ pc' = "apply"
    /\ UNCHANGED <<table, config, table_data, i, updates, error, calls,
                   batch_calls, run, prev_applied>>

\* click.confirm(..., abort=True) answered no: click.Abort is raised
ConfirmDecline ==
    /\ LoopOver
    /\ HasUpdates(updates)
    /\ confirm
    /\ Echo("prompt", 0)
    /\ declined' = TRUE
    /\ pc' = "aborted"
    /\ error' = "Abort"
    /\ UNCHANGED <<table, config, table_data, i, updates, calls, batch_calls,
                   run, prev_applied>>

\* --no-confirm: click.echo("Appling ... updates ...")
NoConfirm ==
    /\ LoopOver
    /\ HasUpdates(updates)
    /\ ~confirm
    /\ Echo("applying", 0)
    /\ pc' = "apply"
    /\ UNCHANGED <<table, config, table_data, i, updates, error, calls,
                   batch_calls, declined, run, prev_applied>>

\* The table after the store has applied the updates us.
RECURSIVE ApplyUpdates(_, _)
ApplyUpdates(t, us) ==
    IF Len(us) = 0 THEN t
    ELSE ApplyUpdates([t EXCEPT ![us[1].id].tract = us[1].tract], Tail(us))

\* table.batch_update(updates) returns
BatchUpdateOk ==
    /\ pc = "apply"
    /\ batch_calls' = Append(batch_calls, updates)
    /\ table' = ApplyUpdates(table, updates)
    /\ pc' = "done"
    /\ UNCHANGED <<config, table_data, i, updates, error, calls, log, declined,
                   run, prev_applied>>

\* table.batch_update(updates) raises
BatchUpdateFails ==
    /\ pc = "apply"
    /\ batch_calls' = Append(batch_calls, updates)
    /\ Fatal("BatchUpdateError")
    /\ UNCHANGED <<table, config, table_data, i, updates, calls, log, declined,
                   run, prev_applied>>

Terminated == pc \in {"done", "aborted", "fatal"}

\* The exit status of the process: 0 when the command returns; click's
\* entry point exits 1 on click.Abort, and an uncaught exception exits 1.
ExitStatus == IF pc = "done" THEN 0 ELSE 1

\* The command is run again on the table as the last run left it, with the
\* same options.
Rerun ==
    /\ pc = "done"
    /\ run < MaxRuns
    /\ run' = run + 1
    /\ prev_applied' = (Len(batch_calls) > 0)
    /\ table_data' = <<>>
    /\ i' = 1
    /\ updates' = <<>>
    /\ pc' = "fetch"
    /\ error' = "none"
    /\ calls' = <<>>
    /\ log' = <<>>
    /\ batch_calls' = <<>>
    /\ declined' = FALSE
    /\ UNCHANGED <<table, config>>

Next ==
    \/ FetchRows
    \/ SkipMissingLatLng
    \/ FloatRaises
    \/ InvalidEngine
    \/ ResolverRaises
    \/ SkipNoTract
    \/ SkipSame
    \/ SkipConflict
    \/ AppendUpdate
    \/ NoUpdates
    \/ ConfirmAccept
    \/ ConfirmDecline
    \/ NoConfirm
    \/ BatchUpdateOk
    \/ BatchUpdateFails
    \/ Rerun

Spec == Init /\ [][Next]_vars

\* --------------------------------------------------------------- properties
\* Row k of this run has been taken up by the loop (k = i is the row the loop
\* stands at, or the row it died on).
Reached(k) == pc # "fetch" /\ k \in 1..Len(table_data) /\ k <= i

\* The loop has finished with row k and gone on.
Passed(k) == pc # "fetch" /\ k \in 1..Len(table_data) /\ k < i

CalledFor(k) == \E c \in 1..Len(calls) : calls[c].id = k

UpdatesFor(k) == {u \in 1..Len(updates) : updates[u].id = k}

Logged(kind, k) == \E m \in 1..Len(log) : log[m] = [kind |-> kind, id |-> k]

\* A coordinate field that is absent, null or empty.
Absent(v) == v.kind = "none" \/ (v.kind = "str" /\ Len(v.s) = 0)

\* A coordinate field that holds no number: absent, or a string that is none.
NotNumeric(v) == Absent(v) \/ (v.kind = "str" /\ ~AllDigits(v.s))

\* The tract field holds the value g, as a string or as a number.
HoldsTract(v, g) ==
    \/ (v.kind = "str" /\ v.s = g)
    \/ (v.kind = "num" /\ v.n = ParseInt(g))

\* The resolver answers row k with a GEOID.
ResolvesTo(k) == resolver[k].kind = "str" /\ Len(resolver[k].s) > 0

\* C1: a row whose latitude or longitude is missing or not a number is never
\* resolved, gets no Update, and does not end the run.
C1_BadCoordinateIsSkipped ==
    \A k \in 1..Len(table_data) :
        (Reached(k) /\ (NotNumeric(table_data[k].lat) \/ NotNumeric(table_data[k].lng)))
            => /\ ~CalledFor(k)
               /\ UpdatesFor(k) = {}
               /\ ~(pc = "fatal" /\ i = k)

\* C2: a resolution that fails on one row does not end the run.
C2_ResolutionFailureIsNotFatal ==
    \A k \in 1..Len(table_data) :
        (Reached(k) /\ CalledFor(k) /\ resolver[k] = Raise)
            => ~(pc = "fatal" /\ i = k)

C4_InvalidEngineIsFatal ==
    (engine \notin {"geocoder", "shapefile"} /\ Terminated)
        => (ExitStatus # 0 /\ batch_calls = <<>>)

\* C5: a row with a resolved tract whose tract field holds a non-empty value
\* different from it gets no Update and a logged conflict when override is
\* off, and exactly one Update to the normalized tract when override is on.
C5_OverrideSemantics ==
    \A k \in 1..Len(table_data) :
        (/\ Passed(k)
         /\ CalledFor(k)
         /\ ResolvesTo(k)
         /\ ~Absent(table_data[k].tract)
         /\ ~HoldsTract(table_data[k].tract, Normalize(resolver[k].s)))
            => IF override
               THEN /\ Cardinality(UpdatesFor(k)) = 1
                    /\ \A u \in UpdatesFor(k) :
                         updates[u].tract = Str(Normalize(resolver[k].s))
               ELSE UpdatesFor(k) = {} /\ Logged("conflict", k)

\* Row k of the fetched table qualifies for an Update.
Qualifies(k) ==
    LET row == table_data[k]
    IN  /\ ~MissingLatLng(row)
        /\ ResolvesTo(k)
        /\ ~SameValue(row.tract, Normalize(resolver[k].s))
        /\ ~OverrideConflict(row.tract, override)

\* The Updates of the rows 1..k that qualify, in fetch order.
RECURSIVE ExpectedUpdates(_)
ExpectedUpdates(k) ==
    IF k = 0 THEN <<>>
    ELSE IF Qualifies(k)
         THEN Append(ExpectedUpdates(k - 1),
                     [id |-> k, tract |-> Str(Normalize(resolver[k].s))])
         ELSE ExpectedUpdates(k - 1)

\* C6: batch_update is called at most once in a run; it is called after every
\* row has been processed, with one Update per qualifying row in fetch order
\* and no row id twice; a run that returns with pending Updates has called it.
C6_OneBatchedWrite ==
    /\ Len(batch_calls) <= 1
    /\ Len(batch_calls) = 1 =>
         /\ i > Len(table_data)
         /\ batch_calls[1] = ExpectedUpdates(Len(table_data))
         /\ batch_calls[1] # <<>>
         /\ \A a, b \in 1..Len(batch_calls[1]) :
              a < b => batch_calls[1][a].id < batch_calls[1][b].id
    /\ (pc = "done" /\ updates # <<>>) => Len(batch_calls) = 1

C6_Witness ==
    /\ pc = "done"
    /\ Len(batch_calls) = 1
    /\ Len(batch_calls[1]) = 2
    /\ table # table_data

\* C7: with override off, a run that follows a run whose batched write was
\* applied collects no Update and writes nothing.
C7_SecondRunIsEmpty ==
    (run >= 2 /\ prev_applied /\ ~override)
        => (updates = <<>> /\ batch_calls = <<>> /\ pc # "apply")

C7_Witness ==
    /\ run = 2
    /\ prev_applied
    /\ ~override
    /\ pc = "done"
    /\ Len(calls) = 2
    /\ Logged("no_updates", 0)

\* C8: a row whose tract field already holds the normalized resolved tract,
\* as a string or as a number, gets no Update, with override off or on.
C8_EqualValueNoUpdate ==
    \A k \in 1..Len(table_data) :
        (/\ Passed(k)
         /\ CalledFor(k)
         /\ ResolvesTo(k)
         /\ HoldsTract(table_data[k].tract, Normalize(resolver[k].s)))
            => UpdatesFor(k) = {}

\* C9: when the loop has gone through every row and collected no Update, the
\* run reports that no updates are needed, shows no prompt, never calls
\* batch_update and returns with exit status zero.
C9_EmptyUpdateListIsNoOp ==
    (pc \notin {"fetch", "loop"} /\ i > Len(table_data) /\ updates = <<>>)
        => /\ pc = "done"
           /\ ExitStatus = 0
           /\ Len(log) > 0
           /\ log[Len(log)] = [kind |-> "no_updates", id |-> 0]
           /\ ~Logged("prompt", 0)
           /\ ~Logged("applying", 0)
           /\ batch_calls = <<>>
           /\ table = table_data

C9_Witness ==
    /\ pc = "done"
    /\ updates = <<>>
    /\ Len(table_data) = 2
    /\ Logged("skip_no_tract", 1)
    /\ Logged("conflict", 2)
    /\ Logged("no_updates", 0)

\* C10: a row whose latitude and longitude are both numbers, the number 0
\* included, is not skipped as missing: the resolver is called with that pair.
C10_NumericCoordinateIsResolved ==
    \A k \in 1..Len(table_data) :
        (/\ Passed(k)
         /\ table_data[k].lat.kind = "num"
         /\ table_data[k].lng.kind = "num")
            => /\ ~Logged("skip_missing", k)
               /\ \E c \in 1..Len(calls) :
                    calls[c] = [id |-> k, lat |-> table_data[k].lat.n,
                                lng |-> table_data[k].lng.n]
====
